---------------------------- MODULE Spec2Model ----------------------------
(***************************************************************************)
(* Model of src/app.py: the PMID/DOI -> AMA citation conversion handler    *)
(* and the pure helpers it is built from.                                  *)
(*                                                                         *)
(* Strings are sequences of characters; a character is a one-symbol        *)
(* string.  Characters outside ASCII are written by their code point       *)
(* ("U+00B2" is SUPERSCRIPT TWO, "U+0663" is ARABIC-INDIC DIGIT THREE).    *)
(* Python's None and "" are both falsy and the program only ever tests     *)
(* these values for truth, so both are the empty sequence here.            *)
(***************************************************************************)
EXTENDS Integers, Sequences, FiniteSets, TLC

(***************************************************************************)
(* Bounds of the model.                                                    *)
(***************************************************************************)
MaxTokenLen == 3
MaxTokens == 3
MaxChunkSize == 2
MaxBatch == 3
MaxArticles == 2
MaxListLen == 4
MaxStrLen == 4

(***************************************************************************)
(* Characters and generic string helpers (Python str methods).             *)
(***************************************************************************)
None == <<>>

\* str.isspace(): the whitespace str.strip() removes and the regex \s matches
Whitespace == {" ", "\t", "\n"}

AsciiDigits == {"0", "1", "2", "3", "4", "5", "6", "7", "8", "9"}

\* characters for which str.isdigit() is true: Unicode Numeric_Type Digit or
\* Decimal, which is the ASCII digits and many more
IsDigitChar(c) == c \in AsciiDigits \cup {"U+00B2", "U+0663"}

\* str.lower() on one character
LowerChar(c) ==
    CASE c = "D" -> "d"
      [] c = "O" -> "o"
      [] c = "I" -> "i"
      [] c = "H" -> "h"
      [] c = "T" -> "t"
      [] c = "P" -> "p"
      [] c = "S" -> "s"
      [] c = "X" -> "x"
      [] c = "R" -> "r"
      [] c = "G" -> "g"
      [] OTHER -> c

Lower(s) == [k \in 1..Len(s) |-> LowerChar(s[k])]

Drop(s, n) == SubSeq(s, n + 1, Len(s))

StartsWith(s, p) == Len(p) <= Len(s) /\ SubSeq(s, 1, Len(p)) = p

\* Python's "p in s" for strings
Contains(s, p) ==
    \E k \in 0..(Len(s) - Len(p)) : SubSeq(s, k + 1, k + Len(p)) = p

RECURSIVE LStripSet(_, _)
LStripSet(s, cs) ==
    IF s # <<>> /\ Head(s) \in cs THEN LStripSet(Tail(s), cs) ELSE s

RECURSIVE RStripSet(_, _)
RStripSet(s, cs) ==
    IF s # <<>> /\ s[Len(s)] \in cs
    THEN RStripSet(SubSeq(s, 1, Len(s) - 1), cs)
    ELSE s

\* str.strip()
Strip(s) == RStripSet(LStripSet(s, Whitespace), Whitespace)

\* all sequences over S of length at most n
SeqsUpTo(S, n) == UNION {[1..k -> S] : k \in 0..n}

(***************************************************************************)
(* Input parsing: is_pmid, is_doi, normalise_doi.                          *)
(***************************************************************************)
DoiPrefix == <<"d", "o", "i", ":">>

\* str.isdigit(): non-empty and every character a digit character
is_pmid(t) == t # <<>> /\ \A k \in 1..Len(t) : IsDigitChar(t[k])

is_doi(t0) ==
    LET t1 == Strip(t0)
        t2 == IF StartsWith(Lower(t1), DoiPrefix) THEN Drop(t1, 4) ELSE t1
    IN  IF Contains(t1, <<" ">>)
        THEN FALSE
        ELSE \/ StartsWith(t2, <<"1", "0", ".">>) /\ Contains(t2, <<"/">>)
             \/ Contains(t2, <<"/">>) /\ Contains(t2, <<"1", "0", ".">>)

UrlPrefixes ==
    { <<"h","t","t","p",":","/","/","d","o","i",".","o","r","g","/">>,
      <<"h","t","t","p","s",":","/","/","d","o","i",".","o","r","g","/">>,
      <<"h","t","t","p",":","/","/","d","x",".","d","o","i",".","o","r","g","/">>,
      <<"h","t","t","p","s",":","/","/","d","x",".","d","o","i",".","o","r","g","/">> }

\* re.sub(r"^https?://(dx\.)?doi\.org/", "", t, flags=re.IGNORECASE)
StripUrlPrefix(t) ==
    IF \E p \in UrlPrefixes : StartsWith(Lower(t), p)
    THEN Drop(t, Len(CHOOSE p \in UrlPrefixes : StartsWith(Lower(t), p)))
    ELSE t

normalise_doi(t0) ==
    LET t1 == Strip(t0)
        t2 == IF StartsWith(Lower(t1), DoiPrefix) THEN Strip(Drop(t1, 4)) ELSE t1
    IN  StripUrlPrefix(t2)

\* the handler's if is_pmid / elif is_doi / else chain
ClassifyToken(t) ==
    LET tt == Strip(t)
    IN  IF is_pmid(tt) THEN "PMID"
        ELSE IF is_doi(tt) THEN "DOI"
        ELSE "Invalid"

(***************************************************************************)
(* chunk_list: [xs[i:i+n] for i in range(0, len(xs), n)]                   *)
(***************************************************************************)
Min(a, b) == IF a <= b THEN a ELSE b

\* Python's xs[a:b] for 0 <= a <= b
Slice(xs, a, b) == SubSeq(xs, a + 1, Min(b, Len(xs)))

\* a plausible variant: the last, shorter batch is dropped
RECURSIVE ChunkFromFullOnly(_, _, _)
ChunkFromFullOnly(xs, n, i) ==
    IF i + n > Len(xs)
    THEN <<>>
    ELSE <<Slice(xs, i, i + n)>> \o ChunkFromFullOnly(xs, n, i + n)

\* the comprehension from index i on: i runs over range(i, len(xs), n)
RECURSIVE ChunkFrom(_, _, _)
ChunkFrom(xs, n, i) ==
    IF i >= Len(xs)
    THEN <<>>
    ELSE <<Slice(xs, i, i + n)>> \o ChunkFrom(xs, n, i + n)

chunk_list_full_only(xs, n) == ChunkFromFullOnly(xs, n, 0)

chunk_list(xs, n) == ChunkFrom(xs, n, 0)

(***************************************************************************)
(* XML helpers.  An element is modelled by its text; an absent element     *)
(* and an element without text are both None.                              *)
(***************************************************************************)
text_or_none(elem) == Strip(elem)

get_all_text(elem) == Strip(elem)

(***************************************************************************)
(* Formatting helpers.                                                     *)
(***************************************************************************)
Period == "."

\* a plausible variant: the period is appended without removing the old ones
ensure_one_period_append(s0) ==
    LET s1 == Strip(s0)
    IN  IF s1 # <<>> THEN s1 \o <<Period>> ELSE <<>>

ensure_one_period(s0) ==
    LET s1 == Strip(s0)
        \* re.sub(r"[.\s]+$", "", s)
        s2 == RStripSet(s1, Whitespace \cup {Period})
    IN  IF s2 # <<>> THEN s2 \o <<Period>> ELSE <<>>

\* sep.join(parts)
RECURSIVE Join(_, _)
Join(parts, sep) ==
    IF parts = <<>> THEN <<>>
    ELSE IF Len(parts) = 1 THEN parts[1]
    ELSE parts[1] \o sep \o Join(Tail(parts), sep)

\* the name one <Author> element contributes, None when it contributes none
AuthorName(a) ==
    LET collective == text_or_none(a.collective)
        last == text_or_none(a.last)
        initials == text_or_none(a.initials)
    IN  IF collective # None THEN collective
        ELSE IF last # None /\ initials # None THEN last \o <<" ">> \o initials
        ELSE IF last # None THEN last
        ELSE None

RECURSIVE AuthorNames(_)
AuthorNames(author_list) ==
    IF author_list = <<>> THEN <<>>
    ELSE LET nm == AuthorName(Head(author_list))
         IN  (IF nm # None THEN <<nm>> ELSE <<>>) \o AuthorNames(Tail(author_list))

CommaSpace == <<",", " ">>

EtAl == <<",", " ", "e", "t", " ", "a", "l", ".">>

format_authors(author_list, mode) ==
    LET authors == AuthorNames(author_list)
    IN  IF authors = <<>> THEN <<>>
        ELSE IF mode = "3etal" /\ Len(authors) > 3
        THEN Join(SubSeq(authors, 1, 3), CommaSpace) \o EtAl
        ELSE Join(authors, CommaSpace)

\* re.sub(r"\s+", " ", ref)
RECURSIVE CollapseSpaces(_)
CollapseSpaces(s) ==
    IF s = <<>> THEN <<>>
    ELSE IF Head(s) \in Whitespace
    THEN <<" ">> \o CollapseSpaces(LStripSet(s, Whitespace))
    ELSE <<Head(s)>> \o CollapseSpaces(Tail(s))

\* re.sub(r"\.\.+", ".", ref)
RECURSIVE CollapsePeriods(_)
CollapsePeriods(s) ==
    IF s = <<>> THEN <<>>
    ELSE IF Head(s) = Period
    THEN <<Period>> \o CollapsePeriods(LStripSet(s, {Period}))
    ELSE <<Head(s)>> \o CollapsePeriods(Tail(s))

\* a plausible variant: the issue is shown whatever the display flag says
VolIssueAlways(volume, issue, include_issue) ==
    IF issue # <<>>
    THEN IF volume # <<>>
         THEN volume \o <<"(">> \o issue \o <<")">>
         ELSE <<"(">> \o issue \o <<")">>
    ELSE volume

\* vol_issue of format_ama
VolIssue(volume, issue, include_issue) ==
    IF include_issue /\ issue # <<>>
    THEN IF volume # <<>>
         THEN volume \o <<"(">> \o issue \o <<")">>
         ELSE <<"(">> \o issue \o <<")">>
    ELSE volume

\* the parts format_ama appends after authors, title and journal
TrailingSegment(year, vol_issue, pages) ==
    IF year # <<>> /\ vol_issue # <<>> /\ pages # <<>>
    THEN << year \o <<";">> \o vol_issue \o <<":">> \o pages \o <<Period>> >>
    ELSE IF year # <<>> /\ vol_issue # <<>>
    THEN << year \o <<";">> \o vol_issue \o <<Period>> >>
    ELSE IF year # <<>>
    THEN << year \o <<Period>> >>
    ELSE <<>>

OrElse(a, b) == IF a # None THEN a ELSE b

AmaYear(art) == OrElse(text_or_none(art.pub_year), text_or_none(art.art_year))

AmaVolume(art) == text_or_none(art.volume)

AmaIssue(art) == text_or_none(art.issue)

AmaPages(art) == text_or_none(art.pages)

\* authors, title and journal as format_ama appends them to parts
AmaHeadParts(art, author_mode) ==
    LET authors == format_authors(art.authors, author_mode)
        title == ensure_one_period(get_all_text(art.title))
        journal == ensure_one_period(
                       OrElse(text_or_none(art.iso), text_or_none(art.medline_ta)))
    IN  (IF authors # <<>> THEN <<ensure_one_period(authors)>> ELSE <<>>)
        \o (IF title # <<>> THEN <<title>> ELSE <<>>)
        \o (IF journal # <<>> THEN <<journal>> ELSE <<>>)

\* the list parts of format_ama when it reaches the join
AmaParts(art, author_mode, include_issue) ==
    AmaHeadParts(art, author_mode)
    \o TrailingSegment(AmaYear(art),
                       VolIssue(AmaVolume(art), AmaIssue(art), include_issue),
                       AmaPages(art))

RECURSIVE StripEach(_)
StripEach(parts) ==
    IF parts = <<>> THEN <<>>
    ELSE (IF Strip(Head(parts)) # <<>> THEN <<Strip(Head(parts))>> ELSE <<>>)
         \o StripEach(Tail(parts))

\* format_ama returns the pair (pmid, ref)
format_ama(art, author_mode, include_issue) ==
    LET pmid == text_or_none(art.pmid)
        joined == Join(StripEach(AmaParts(art, author_mode, include_issue)), <<" ">>)
        ref == CollapsePeriods(Strip(CollapseSpaces(joined)))
    IN  <<pmid, ref>>

\* a plausible variant: every citation of the found map is emitted
RECURSIVE reorder_all_found(_, _)
reorder_all_found(found, input_pmids_in_order) ==
    IF DOMAIN found = {} THEN <<>>
    ELSE LET p == CHOOSE q \in DOMAIN found : TRUE
         IN  <<found[p]>>
             \o reorder_all_found([q \in DOMAIN found \ {p} |-> found[q]],
                                  input_pmids_in_order)

RECURSIVE reorder_by_input(_, _)
reorder_by_input(found, input_pmids_in_order) ==
    IF input_pmids_in_order = <<>> THEN <<>>
    ELSE (IF Head(input_pmids_in_order) \in DOMAIN found
          THEN <<found[Head(input_pmids_in_order)]>>
          ELSE <<>>)
         \o reorder_by_input(found, Tail(input_pmids_in_order))

(***************************************************************************)
(* State.  The first group is the run state of the conversion handler      *)
(* (the body of "if st.button(...)"), the second an application of one of  *)
(* the pure helpers to an argument.                                        *)
(***************************************************************************)
VARIABLES
    pc,                       \* position of the handler
    tokens,                   \* split_tokens(input_text)
    ti,                       \* tokens processed by the resolution loop
    resolved_pmids_in_order,
    invalid_tokens,
    doi_not_found,
    chunks,
    ci,                       \* chunks processed by the fetch loop
    found,
    missing_pmids,
    refs,
    out_text,                 \* the lines of the output text area
    messages,                 \* st.warning / st.error / st.success shown, in order
    events,                   \* remote calls (with the status that came back) and
                              \* time.sleep calls, in order
    esearch_returns,          \* what each completed esearch_pmid_from_doi returned
    record_seen,              \* per PMID of a fetched batch: whether the document
                              \* fetched for that batch held a record with that PMID
    fn,                       \* the helper applied ("" in a handler run)
    fn_args,
    fn_done,
    fn_result

run_vars == <<pc, tokens, ti, resolved_pmids_in_order, invalid_tokens,
              doi_not_found, chunks, ci, found, missing_pmids, refs, out_text,
              messages, events, esearch_returns, record_seen>>

fn_vars == <<fn, fn_args, fn_done, fn_result>>

vars == <<run_vars, fn_vars>>

EmptyMap == [p \in {} |-> <<>>]

\* the handler before the button is pressed
RunIdle ==
    /\ pc = "idle"
    /\ tokens = <<>>
    /\ ti = 0
    /\ resolved_pmids_in_order = <<>>
    /\ invalid_tokens = <<>>
    /\ doi_not_found = <<>>
    /\ chunks = <<>>
    /\ ci = 0
    /\ found = EmptyMap
    /\ missing_pmids = <<>>
    /\ refs = <<>>
    /\ out_text = <<>>
    /\ messages = <<>>
    /\ events = <<>>
    /\ esearch_returns = <<>>
    /\ record_seen = EmptyMap

FnIdle ==
    /\ fn = ""
    /\ fn_args = <<>>
    /\ fn_done = FALSE
    /\ fn_result = <<>>

(***************************************************************************)
(* Token classification: the handler's chain applied to one token.         *)
(***************************************************************************)
TokenAlphabet == {"1", "0", ".", "/", "x", "U+00B2", ":"}

TokenPrefixes == {<<>>, <<"d", "o", "i", ":">>, <<"D", "O", "I", ":">>, <<"D", "o", "i", ":">>}

\* non-empty tokens as split_tokens yields them: no comma, no whitespace
ClassifyInputs ==
    {p \o b : p \in TokenPrefixes, b \in SeqsUpTo(TokenAlphabet, MaxTokenLen)} \ {<<>>}

InitClassify ==
    /\ RunIdle
    /\ fn = "classify"
    /\ fn_args \in {[t |-> t] : t \in ClassifyInputs}
    /\ fn_done = FALSE
    /\ fn_result = <<>>

ApplyClassify ==
    /\ fn = "classify"
    /\ ~fn_done
    /\ fn_done' = TRUE
    /\ fn_result' = ClassifyToken(fn_args.t)
    /\ UNCHANGED <<fn, fn_args, run_vars>>

NextClassify == ApplyClassify

SpecClassify == InitClassify /\ [][NextClassify]_vars

(***************************************************************************)
(* chunk_list applied to a PMID list and a batch size.                     *)
(***************************************************************************)
PmidAlphabet == {<<"1">>, <<"2">>}

InitChunk ==
    /\ RunIdle
    /\ fn = "chunk_list"
    /\ fn_args \in {[xs |-> xs, n |-> n] :
                       xs \in SeqsUpTo(PmidAlphabet, MaxListLen), n \in 1..MaxBatch}
    /\ fn_done = FALSE
    /\ fn_result = <<>>

ApplyChunk ==
    /\ fn = "chunk_list"
    /\ ~fn_done
    /\ fn_done' = TRUE
    /\ fn_result' = chunk_list(fn_args.xs, fn_args.n)
    /\ UNCHANGED <<fn, fn_args, run_vars>>

NextChunk == ApplyChunk

SpecChunk == InitChunk /\ [][NextChunk]_vars

(***************************************************************************)
(* ensure_one_period applied to a string.                                  *)
(***************************************************************************)
PeriodAlphabet == {"a", ".", " ", "\n"}

InitPeriod ==
    /\ RunIdle
    /\ fn = "ensure_one_period"
    /\ fn_args \in {[s |-> s] : s \in SeqsUpTo(PeriodAlphabet, MaxStrLen)}
    /\ fn_done = FALSE
    /\ fn_result = <<>>

ApplyPeriod ==
    /\ fn = "ensure_one_period"
    /\ ~fn_done
    /\ fn_done' = TRUE
    /\ fn_result' = ensure_one_period(fn_args.s)
    /\ UNCHANGED <<fn, fn_args, run_vars>>

NextPeriod == ApplyPeriod

SpecPeriod == InitPeriod /\ [][NextPeriod]_vars

(***************************************************************************)
(* format_ama applied to one PubmedArticle element.                        *)
(***************************************************************************)
NoText == <<>>

Author(collective, last, initials) ==
    [collective |-> collective, last |-> last, initials |-> initials]

AuthorSmith == Author(NoText, <<"S">>, <<"J">>)

AuthorGroup == Author(<<"G">>, <<"X">>, NoText)

AuthorDoe == Author(NoText, <<"D">>, NoText)

AuthorNameless == Author(NoText, NoText, <<"Q">>)

AuthorLists ==
    { <<>>,
      <<AuthorSmith>>,
      <<AuthorSmith, AuthorGroup, AuthorDoe>>,
      <<AuthorSmith, AuthorNameless, AuthorGroup, AuthorDoe, AuthorSmith>> }

AmaArticles ==
    [ pmid : {NoText, <<"1">>},
      authors : AuthorLists,
      title : {NoText, <<"T">>, <<"T", ".", " ">>},
      iso : {NoText, <<"J">>},
      medline_ta : {<<"M", ".">>},
      pub_year : {NoText, <<"2", "0">>},
      art_year : {NoText, <<"1", "9">>},
      volume : {NoText, <<"5">>, <<" ">>},
      issue : {NoText, <<"2">>},
      pages : {NoText, <<"1", "-", "9">>} ]

AuthorModes == {"all", "3etal"}

InitAma ==
    /\ RunIdle
    /\ fn = "format_ama"
    /\ fn_args \in [art : AmaArticles, author_mode : AuthorModes, include_issue : BOOLEAN]
    /\ fn_done = FALSE
    /\ fn_result = <<>>

\* the result keeps the pair format_ama returns and its locals vol_issue and parts
ApplyAma ==
    /\ fn = "format_ama"
    /\ ~fn_done
    /\ fn_done' = TRUE
    /\ fn_result' =
          [ ret |-> format_ama(fn_args.art, fn_args.author_mode, fn_args.include_issue),
            vol_issue |-> VolIssue(AmaVolume(fn_args.art), AmaIssue(fn_args.art),
                                   fn_args.include_issue),
            parts |-> AmaParts(fn_args.art, fn_args.author_mode, fn_args.include_issue) ]
    /\ UNCHANGED <<fn, fn_args, run_vars>>

NextAma == ApplyAma

SpecAma == InitAma /\ [][NextAma]_vars

(***************************************************************************)
(* The conversion handler: one run from the button press to the output,    *)
(* a st.stop() or the except clause.                                       *)
(***************************************************************************)
DoiToken == <<"D", "o", "i", ":", "1", "0", ".", "/", "a">>

\* tokens of the input text: two PMIDs, a DOI and a token that is neither
TokenPool == {<<"1">>, <<"2">>, DoiToken, <<"x">>}

\* what the ESearch request may come back with: a failing status
\* (raise_for_status), a body ET.fromstring rejects, or a document whose
\* first IdList/Id has the text id (NoText: no such element, or no text)
EsearchResponses ==
    {[status |-> "http_error", id |-> NoText], [status |-> "unparsable", id |-> NoText]}
    \cup {[status |-> "ok", id |-> id] : id \in {NoText, <<"1">>, <<" ", "3">>}}

RunArticle(pmid, title) ==
    [ pmid |-> pmid,
      authors |-> <<AuthorSmith>>,
      title |-> title,
      iso |-> <<"J">>,
      medline_ta |-> NoText,
      pub_year |-> <<"2", "0">>,
      art_year |-> NoText,
      volume |-> <<"5">>,
      issue |-> <<"2">>,
      pages |-> <<"1", "-", "9">> ]

\* the PubmedArticle elements a fetched document may hold
ArticlePool ==
    {RunArticle(p, <<"T">>) : p \in {NoText, <<"1">>, <<"2">>, <<"3">>}}
    \cup {RunArticle(<<"1">>, <<"U">>)}

\* what the EFetch request may come back with
EfetchResponses ==
    {[status |-> "http_error", articles |-> <<>>],
     [status |-> "unparsable", articles |-> <<>>]}
    \cup {[status |-> "ok", articles |-> as] : as \in SeqsUpTo(ArticlePool, MaxArticles)}

\* the slider's batch sizes, scaled down from 50, 100, 200
ChunkSizes == 1..MaxChunkSize

\* sidebar defaults: author display "3etal", issue display on
RunAuthorMode == "3etal"

RunIncludeIssue == TRUE

Range(f) == {f[k] : k \in DOMAIN f}

Put(map, key, value) ==
    [k \in DOMAIN map \cup {key} |-> IF k = key THEN value ELSE map[k]]

Message(level, what, items) == [level |-> level, what |-> what, items |-> items]

\* a plausible variant: the list is left as resolved
DedupKeepAll(xs, seen) == xs

\* [p for p in xs if not (p in seen or seen.add(p))]
RECURSIVE Dedup(_, _)
Dedup(xs, seen) ==
    IF xs = <<>> THEN <<>>
    ELSE IF Head(xs) \in seen
    THEN Dedup(Tail(xs), seen)
    ELSE <<Head(xs)>> \o Dedup(Tail(xs), seen \cup {Head(xs)})

\* format_ama(art, author_mode=author_mode, include_issue=include_issue) of
\* every article a document may hold
Formatted == [art \in ArticlePool |-> format_ama(art, RunAuthorMode, RunIncludeIssue)]

\* the set returned built by the loop over root.findall("./PubmedArticle")
ReturnedPmids(articles) ==
    {Formatted[articles[k]][1] : k \in DOMAIN articles} \ {None}

\* found after the loop over root.findall("./PubmedArticle")
RECURSIVE StoreArticles(_, _)
StoreArticles(articles, fnd) ==
    IF articles = <<>> THEN fnd
    ELSE LET r == Formatted[Head(articles)]
         IN  StoreArticles(Tail(articles),
                           IF r[1] # None THEN Put(fnd, r[1], r[2]) ELSE fnd)

\* a plausible variant: a PMID is reported missing only if no batch so far returned it
MissingOfNotFound(ch, returned, fnd) ==
    SelectSeq(ch, LAMBDA p : p \notin DOMAIN fnd)

\* the PMIDs of ch the loop "for p in ch" appends to missing_pmids
MissingOf(ch, returned, fnd) ==
    SelectSeq(ch, LAMBDA p : p \notin returned)

DigitOf(n) ==
    CASE n = 1 -> "1" [] n = 2 -> "2" [] n = 3 -> "3" [] n = 4 -> "4" [] n = 5 -> "5"
      [] n = 6 -> "6" [] n = 7 -> "7" [] n = 8 -> "8" [] n = 9 -> "9" [] OTHER -> "0"

\* the lines joined by "\n" into out_text
OutLines(rs, number_each) ==
    IF number_each
    THEN [k \in 1..Len(rs) |-> <<DigitOf(k), ")", " ">> \o rs[k]]
    ELSE rs

CallEvent(api, status) == <<api, status>>

SleepEvent == <<"sleep", "">>

\* a plausible variant: an unresolved DOI is not followed by a delay
ThrottleAfterLookupOnlyIfResolved(resolved) ==
    IF resolved THEN <<SleepEvent>> ELSE <<>>

\* time.sleep(rate_sleep) after the if pmid / else of a DOI token
ThrottleAfterLookup(resolved) == <<SleepEvent>>

\* a plausible variant: a failed lookup counts as an unresolved DOI
LookupFailsDowngraded(resp) == FALSE

\* r.raise_for_status() or ET.fromstring raises
LookupFails(resp) == resp.status # "ok"

Init == RunIdle /\ FnIdle

\* the button is pressed: split_tokens, the empty-input check, the accumulators
Convert ==
    /\ pc = "idle"
    /\ fn = ""
    /\ \E toks \in SeqsUpTo(TokenPool, MaxTokens) :
          /\ tokens' = toks
          /\ IF toks = <<>>
             THEN /\ messages' = Append(messages, Message("warning", "empty_input", <<>>))
                  /\ pc' = "stopped"
             ELSE /\ messages' = messages
                  /\ pc' = "resolve"
    /\ UNCHANGED <<ti, resolved_pmids_in_order, invalid_tokens, doi_not_found, chunks,
                   ci, found, missing_pmids, refs, out_text, events, esearch_returns,
                   record_seen, fn_vars>>

\* one iteration of "for i, t in enumerate(tokens, start=1)"
ResolveToken ==
    /\ pc = "resolve"
    /\ ti < Len(tokens)
    /\ LET tt == Strip(tokens[ti + 1])
       IN  IF is_pmid(tt)
           THEN /\ resolved_pmids_in_order' = Append(resolved_pmids_in_order, tt)
                /\ ti' = ti + 1
                /\ UNCHANGED <<pc, invalid_tokens, doi_not_found, messages, events,
                               esearch_returns>>
           ELSE IF is_doi(tt)
           THEN \E resp \in EsearchResponses :
                  IF LookupFails(resp)
                  THEN /\ events' = Append(events, CallEvent("esearch", resp.status))
                       /\ messages' = Append(messages, Message("error", resp.status, <<>>))
                       /\ pc' = "error"
                       /\ UNCHANGED <<ti, resolved_pmids_in_order, invalid_tokens,
                                      doi_not_found, esearch_returns>>
                  ELSE LET pmid == Strip(resp.id)
                       IN  /\ IF pmid # None
                              THEN /\ resolved_pmids_in_order' =
                                         Append(resolved_pmids_in_order, pmid)
                                   /\ doi_not_found' = doi_not_found
                              ELSE /\ doi_not_found' =
                                         Append(doi_not_found, normalise_doi(tt))
                                   /\ resolved_pmids_in_order' = resolved_pmids_in_order
                           /\ esearch_returns' = Append(esearch_returns, pmid)
                           /\ events' = events
                                         \o <<CallEvent("esearch", resp.status)>>
                                         \o ThrottleAfterLookup(pmid # None)
                           /\ ti' = ti + 1
                           /\ UNCHANGED <<pc, invalid_tokens, messages>>
           ELSE /\ invalid_tokens' = Append(invalid_tokens, tt)
                /\ ti' = ti + 1
                /\ UNCHANGED <<pc, resolved_pmids_in_order, doi_not_found, messages,
                               events, esearch_returns>>
    /\ UNCHANGED <<tokens, chunks, ci, found, missing_pmids, refs, out_text,
                   record_seen, fn_vars>>

\* after the loop: the two warnings, the de-duplication, the no-PMID check,
\* and the batching
EndResolve ==
    /\ pc = "resolve"
    /\ ti = Len(tokens)
    /\ LET warned ==
              messages
              \o (IF invalid_tokens # <<>>
                  THEN <<Message("warning", "invalid_tokens", invalid_tokens)>>
                  ELSE <<>>)
              \o (IF doi_not_found # <<>>
                  THEN <<Message("warning", "doi_not_found", Range(doi_not_found))>>
                  ELSE <<>>)
           deduped == Dedup(resolved_pmids_in_order, {})
       IN  /\ resolved_pmids_in_order' = deduped
           /\ IF deduped = <<>>
              THEN /\ messages' = Append(warned, Message("error", "no_valid_input", <<>>))
                   /\ pc' = "stopped"
                   /\ chunks' = chunks
              ELSE /\ messages' = warned
                   /\ pc' = "fetch"
                   /\ \E chunk_size \in ChunkSizes :
                         chunks' = chunk_list(deduped, chunk_size)
    /\ UNCHANGED <<tokens, ti, invalid_tokens, doi_not_found, ci, found, missing_pmids,
                   refs, out_text, events, esearch_returns, record_seen, fn_vars>>

\* one iteration of "for ci, ch in enumerate(chunks, start=1)"
FetchChunk ==
    /\ pc = "fetch"
    /\ ci < Len(chunks)
    /\ \E resp \in EfetchResponses :
          IF resp.status # "ok"
          THEN /\ events' = Append(events, CallEvent("efetch", resp.status))
               /\ messages' = Append(messages, Message("error", resp.status, <<>>))
               /\ pc' = "error"
               /\ UNCHANGED <<ci, found, missing_pmids, record_seen>>
          ELSE /\ found' = StoreArticles(resp.articles, found)
               /\ missing_pmids' =
                     missing_pmids
                     \o MissingOf(chunks[ci + 1], ReturnedPmids(resp.articles),
                                  StoreArticles(resp.articles, found))
               /\ record_seen' =
                     [p \in DOMAIN record_seen \cup Range(chunks[ci + 1]) |->
                        IF p \in Range(chunks[ci + 1])
                        THEN \E k \in DOMAIN resp.articles :
                                Strip(resp.articles[k].pmid) = p
                        ELSE record_seen[p]]
               /\ events' = events \o <<CallEvent("efetch", resp.status), SleepEvent>>
               /\ ci' = ci + 1
               /\ UNCHANGED <<pc, messages>>
    /\ UNCHANGED <<tokens, ti, resolved_pmids_in_order, invalid_tokens, doi_not_found,
                   chunks, refs, out_text, esearch_returns, fn_vars>>

\* after the fetch loop: reorder_by_input, the output area, the summary
Render ==
    /\ pc = "fetch"
    /\ ci = Len(chunks)
    /\ refs' = reorder_by_input(found, resolved_pmids_in_order)
    /\ \E number_each \in BOOLEAN : out_text' = OutLines(refs', number_each)
    /\ messages' =
          messages
          \o <<Message("success", "summary",
                       <<Len(refs'), Cardinality(Range(missing_pmids))>>)>>
          \o (IF missing_pmids # <<>>
              THEN <<Message("warning", "missing_pmids", Range(missing_pmids))>>
              ELSE <<>>)
    /\ pc' = "done"
    /\ UNCHANGED <<tokens, ti, resolved_pmids_in_order, invalid_tokens, doi_not_found,
                   chunks, ci, found, missing_pmids, events, esearch_returns,
                   record_seen, fn_vars>>

Next == Convert \/ ResolveToken \/ EndResolve \/ FetchChunk \/ Render

Spec == Init /\ [][Next]_vars

(***************************************************************************)
(* Properties.                                                             *)
(***************************************************************************)
Last(xs) == xs[Len(xs)]

Front(xs) == SubSeq(xs, 1, Len(xs) - 1)

NoDuplicates(xs) == \A i, j \in DOMAIN xs : i # j => xs[i] # xs[j]

\* xs with every occurrence after the first removed
RECURSIVE FirstOccurrences(_)
FirstOccurrences(xs) ==
    IF xs = <<>> THEN <<>>
    ELSE LET f == FirstOccurrences(Front(xs))
         IN  IF Last(xs) \in Range(f) THEN f ELSE Append(f, Last(xs))

RECURSIVE Flatten(_)
Flatten(xss) == IF xss = <<>> THEN <<>> ELSE Head(xss) \o Flatten(Tail(xss))

\* the number of places of xs holding a value of vals
Count(xs, vals) == Cardinality({k \in DOMAIN xs : xs[k] \in vals})

\* C1: when the output is rendered, the emitted citations are found[p] for the
\* PMIDs p of the de-duplicated resolved sequence that are keys of found, in
\* that order; each such PMID gives one line and no other PMID gives any.
C1_OutputFollowsResolvedOrder ==
    pc = "done" =>
        LET kept == SelectSeq(resolved_pmids_in_order, LAMBDA p : p \in DOMAIN found)
        IN  /\ Len(refs) = Len(kept)
            /\ \A k \in DOMAIN kept : refs[k] = found[kept[k]]
            /\ NoDuplicates(kept)
            /\ Len(refs) = Cardinality(Range(resolved_pmids_in_order) \cap DOMAIN found)
            /\ Len(out_text) = Len(refs)

\* C1 is exercised: two different citations emitted in resolved order while
\* found also holds a PMID that was never resolved
C1_Witness ==
    /\ pc = "done"
    /\ resolved_pmids_in_order = << <<"2">>, <<"1">> >>
    /\ Len(refs) = 2
    /\ refs[1] # refs[2]
    /\ DOMAIN found \ Range(resolved_pmids_in_order) # {}

\* the resolution phase of a run is over (its de-duplication included)
ResolutionOver ==
    \/ pc \in {"fetch", "done"}
    \/ pc = "stopped" /\ tokens # <<>>
    \/ pc = "error" /\ chunks # <<>>

\* the PMIDs the tokens give in input order: a PMID token itself, a DOI token
\* the PMID its lookup returned (returns holds the lookups' results in order),
\* nothing for an unresolved DOI or an invalid token
RECURSIVE Contributions(_, _)
Contributions(toks, returns) ==
    IF toks = <<>> THEN <<>>
    ELSE LET kind == ClassifyToken(Head(toks))
         IN  IF kind = "PMID"
             THEN <<Head(toks)>> \o Contributions(Tail(toks), returns)
             ELSE IF kind = "DOI"
             THEN (IF Head(returns) # None THEN <<Head(returns)>> ELSE <<>>)
                  \o Contributions(Tail(toks), Tail(returns))
             ELSE Contributions(Tail(toks), returns)

\* C2: after the resolution phase the resolved PMID sequence has no duplicates
\* and is the tokens' PMIDs in input order with every occurrence after the
\* first removed.
C2_ResolvedIsFirstOccurrenceOrder ==
    ResolutionOver =>
        /\ NoDuplicates(resolved_pmids_in_order)
        /\ resolved_pmids_in_order =
              FirstOccurrences(Contributions(tokens, esearch_returns))

\* C2 is exercised: PMID 1 is a direct token and then the target of a DOI
C2_Witness ==
    /\ ResolutionOver
    /\ tokens = << <<"2">>, <<"1">>, DoiToken >>
    /\ esearch_returns = << <<"1">> >>
    /\ resolved_pmids_in_order = << <<"2">>, <<"1">> >>

IsCall(e) == e[1] \in {"esearch", "efetch"}

IsFailedCall(e) == IsCall(e) /\ e[2] # "ok"

IsOkCall(e) == IsCall(e) /\ e[2] = "ok"

OkLookup == CallEvent("esearch", "ok")

OkFetch == CallEvent("efetch", "ok")

IsSleep(e) == e = SleepEvent

\* C3: a remote call that fails (status not a success, or a body that does
\* not parse) is the last thing the run does: no call and no delay follows
\* it, the output is not rendered, the failure is shown as an error, and it
\* adds no entry to the unresolved-DOI list or the missing-PMID list.
C3_FailureAbortsRun ==
    (\E k \in DOMAIN events : IsFailedCall(events[k])) =>
        /\ IsFailedCall(Last(events))
        /\ \A k \in 1..(Len(events) - 1) : ~IsFailedCall(events[k])
        /\ pc = "error"
        /\ refs = <<>> /\ out_text = <<>>
        /\ \A k \in DOMAIN messages : messages[k].level # "success"
        /\ Last(messages) = Message("error", Last(events)[2], <<>>)
        /\ Len(doi_not_found) = Count(esearch_returns, {None})
        /\ Len(esearch_returns) = Count(events, {OkLookup})
        /\ \A k \in DOMAIN messages : messages[k].what # "missing_pmids"
        /\ Range(missing_pmids) \subseteq Range(Flatten(SubSeq(chunks, 1, ci)))

\* C3 is exercised: the second batch fails after the first filled found
C3_Witness ==
    /\ pc = "error"
    /\ Last(events) = CallEvent("efetch", "unparsable")
    /\ DOMAIN found # {}
    /\ ci = 1

\* every remote call of the run so far came back with a success
AllCallsOk == \A k \in DOMAIN events : ~IsFailedCall(events[k])

\* C4: in a run whose remote calls all succeed, after the fetch loop a
\* resolved PMID is in the missing list exactly if the document fetched for
\* its batch held no record with that PMID; a PMID without a record does not
\* stop the run.
C4_MissingIffNoRecordInBatch ==
    /\ (pc = "done" /\ AllCallsOk) =>
          \A p \in Range(resolved_pmids_in_order) :
              /\ p \in DOMAIN record_seen
              /\ (p \in Range(missing_pmids)) <=> ~record_seen[p]
    /\ (AllCallsOk /\ missing_pmids # <<>>) => pc \in {"fetch", "done"}
    /\ (pc = "done") => AllCallsOk

\* C4 is exercised: one PMID without a record, the other one cited
C4_Witness ==
    /\ pc = "done"
    /\ missing_pmids = << <<"2">> >>
    /\ Len(resolved_pmids_in_order) = 2
    /\ Len(refs) = 1

\* C5: chunk_list(xs, B) with B >= 1 and N = Len(xs) returns ceil(N/B)
\* batches, each non-empty and of at most B PMIDs, whose concatenation in
\* order is xs.
C5_ChunksCoverInOrder ==
    (fn = "chunk_list" /\ fn_done) =>
        LET N == Len(fn_args.xs)
            B == fn_args.n
        IN  /\ Len(fn_result) = (N + B - 1) \div B
            /\ \A k \in DOMAIN fn_result :
                  Len(fn_result[k]) >= 1 /\ Len(fn_result[k]) <= B
            /\ Flatten(fn_result) = fn_args.xs

\* C5 is exercised: three PMIDs in batches of two, the last batch shorter
C5_Witness ==
    /\ fn = "chunk_list" /\ fn_done
    /\ Len(fn_args.xs) = 3 /\ fn_args.n = 2
    /\ Len(fn_result) = 2
    /\ Len(fn_result[2]) = 1

\* t without an optional "doi:" prefix in any letter case
WithoutDoiPrefix(t) ==
    IF Len(t) >= 4 /\ Lower(SubSeq(t, 1, 4)) = <<"d", "o", "i", ":">>
    THEN SubSeq(t, 5, Len(t))
    ELSE t

\* C6: a non-empty token is a PMID exactly if all its characters are ASCII
\* digits; otherwise a DOI exactly if, without an optional "doi:" prefix, it
\* contains "/" and contains "10."; otherwise Invalid.
C6_ClassificationRule ==
    (fn = "classify" /\ fn_done) =>
        fn_result =
            IF \A k \in DOMAIN fn_args.t : fn_args.t[k] \in AsciiDigits
            THEN "PMID"
            ELSE IF /\ Contains(WithoutDoiPrefix(fn_args.t), <<"/">>)
                    /\ Contains(WithoutDoiPrefix(fn_args.t), <<"1", "0", ".">>)
            THEN "DOI"
            ELSE "Invalid"

\* the tokens among the first n that the handler takes for a DOI
DoiTokensAmong(n) == {k \in 1..n : ClassifyToken(tokens[k]) = "DOI"}

\* C7: every successful remote call is followed at once by one delay, a
\* delay only ever follows a successful remote call (so none is made for a
\* PMID token or an invalid token), the lookups are those of the DOI tokens,
\* and no two remote calls are adjacent.
C7_OneDelayAfterEachCall ==
    /\ \A k \in DOMAIN events :
          /\ IsOkCall(events[k]) =>
                /\ k < Len(events)
                /\ IsSleep(events[k + 1])
          /\ IsSleep(events[k]) => k > 1 /\ IsOkCall(events[k - 1])
          /\ (IsCall(events[k]) /\ k < Len(events)) => ~IsCall(events[k + 1])
    /\ Count(events, {SleepEvent}) = Count(events, {OkLookup, OkFetch})
    /\ Count(events, {OkLookup}) = Cardinality(DoiTokensAmong(ti))
    /\ Count(events, {OkFetch}) = ci
    /\ pc = "done" => IsSleep(Last(events)) /\ ci = Len(chunks)

\* C7 is exercised: a PMID token, an unresolved DOI and an invalid token,
\* then one batch
C7_Witness ==
    /\ pc = "done"
    /\ tokens = << <<"1">>, DoiToken, <<"x">> >>
    /\ Len(doi_not_found) = 1
    /\ events = << CallEvent("esearch", "ok"), SleepEvent,
                   CallEvent("efetch", "ok"), SleepEvent >>

EndsInOnePeriod(out) ==
    /\ out # <<>>
    /\ Last(out) = Period
    /\ Len(out) >= 2 => out[Len(out) - 1] # Period

\* c is s without its leading whitespace and its trailing periods/whitespace
IsCoreOf(c, s) ==
    \E a, b \in 0..Len(s) :
        /\ a <= b
        /\ c = SubSeq(s, a + 1, b)
        /\ \A k \in 1..a : s[k] \in Whitespace
        /\ \A k \in (b + 1)..Len(s) : s[k] \in Whitespace \cup {Period}
        /\ c # <<>> => c[1] \notin Whitespace /\ Last(c) \notin Whitespace \cup {Period}

OnlyPeriodsAndSpace(s) == \A k \in DOMAIN s : s[k] \in Whitespace \cup {Period}

C9_VolumeIssueAndTrailingSegment ==
    (fn = "format_ama" /\ fn_done) =>
        LET year == AmaYear(fn_args.art)
            volume == AmaVolume(fn_args.art)
            issue == AmaIssue(fn_args.art)
            pages == AmaPages(fn_args.art)
            shown == fn_args.include_issue
            vi == fn_result.vol_issue
            head == AmaHeadParts(fn_args.art, fn_args.author_mode)
            seg == SubSeq(fn_result.parts, Len(head) + 1, Len(fn_result.parts))
        IN  /\ (issue = <<>> \/ ~shown) => vi = volume
            /\ (issue # <<>> /\ volume # <<>> /\ shown) =>
                  vi = volume \o <<"(">> \o issue \o <<")">>
            /\ (issue # <<>> /\ volume = <<>> /\ shown) =>
                  vi = <<"(">> \o issue \o <<")">>
            /\ SubSeq(fn_result.parts, 1, Len(head)) = head
            /\ (year # <<>> /\ vi # <<>> /\ pages # <<>>) =>
                  seg = << year \o <<";">> \o vi \o <<":">> \o pages \o <<".">> >>
            /\ (year # <<>> /\ vi # <<>> /\ pages = <<>>) =>
                  seg = << year \o <<";">> \o vi \o <<".">> >>
            /\ (year # <<>> /\ vi = <<>>) => seg = << year \o <<".">> >>
            /\ year = <<>> => seg = <<>>

\* C9 is exercised: an issue without a volume, shown, with year and pages
C9_Witness ==
    /\ fn = "format_ama" /\ fn_done
    /\ fn_args.include_issue
    /\ AmaVolume(fn_args.art) = <<>>
    /\ fn_result.vol_issue = <<"(", "2", ")">>
    /\ Last(fn_result.parts) = <<"2", "0", ";", "(", "2", ")", ":", "1", "-", "9", ".">>

\* C10: when the fetch loop has completed, every resolved PMID is a key of
\* found or in the missing list and never both, the missing list has no
\* duplicates, and the citations produced plus the distinct missing PMIDs
\* number the resolved PMIDs.
C10_FoundAndMissingPartition ==
    pc = "done" =>
        /\ \A p \in Range(resolved_pmids_in_order) :
              /\ p \in DOMAIN found \/ p \in Range(missing_pmids)
              /\ ~(p \in DOMAIN found /\ p \in Range(missing_pmids))
        /\ NoDuplicates(missing_pmids)
        /\ Len(refs) + Cardinality(Range(missing_pmids)) = Len(resolved_pmids_in_order)

=============================================================================
